---- MODULE Spec2Model ----
(***************************************************************************)
(* A model of src/day2/Yang/code/DeepHAM_nuvolos/src/policy.py: the policy *)
(* trainers of the DeepHAM solver.                                         *)
(*                                                                         *)
(*   Spec      the training loop of PolicyTrainer (train, sampler,         *)
(*             train_step, grad, the variant hooks), one action per call   *)
(*             or statement of train, for the abstract base and the four   *)
(*             concrete trainers.                                          *)
(*   SpecLoss  the loss recursions of the four variants, period by period, *)
(*             in exact fixed-point arithmetic.                            *)
(*   SpecSave  save_model and the load of __init__ over a small file       *)
(*             system.                                                     *)
(***************************************************************************)
EXTENDS Integers, Sequences, FiniteSets, TLC

VARIABLES
    \* ---- the trainer object (Spec) ----
    cls,        \* the class of the trainer instance
    config,     \* the configuration read in __init__ (read-only afterwards)
    policy_ds,  \* self.policy_ds: NoDS (None) or the current policy dataset
    weights,    \* version of the policy-network weights (optimizer updates applied)
    optimizer,  \* self.optimizer: NoOpt (attribute not set) or the Adam state
    pc,         \* position inside train, "idle" between public calls
    tr,         \* the arguments and locals of the current/last train call
    ev,         \* what the current/last public call has done so far
    smp,        \* what the most recent sampler call read and did
    last,       \* the current/last public call and how it ended
    snap,       \* weights and dataset as they were when that call began
    calls,      \* public calls made so far
    \* ---- one loss evaluation (SpecLoss) ----
    ls,
    \* ---- persistence (SpecSave) ----
    sv,
    \* ---- what the loss is differentiable in (SpecGrad) ----
    gt,
    \* ---- prepare_state (SpecPrep) ----
    ps

vars == <<cls, config, policy_ds, weights, optimizer, pc, tr, ev, smp, last,
          snap, calls, ls, sv, gt, ps>>

(***************************************************************************)
(* Bounds of the model.                                                    *)
(***************************************************************************)
MaxNumStep == 3        \* num_step of a train call ranges over 0..MaxNumStep
MaxFreqValid == 2      \* policy_config["freq_valid"] in 1..MaxFreqValid
MaxFreqUpdateV == 2    \* policy_config["freq_update_v"] in 1..MaxFreqUpdateV
MaxEpochResample == 1  \* policy_config["epoch_resample"] in 0..MaxEpochResample
ValidSize == 1         \* policy_config["valid_size"]; batch_size in 1..ValidSize+1
MaxVnet == 2           \* len(vtrainers) in 1..MaxVnet
MaxCalls == 1          \* public calls made on one trainer instance

(***************************************************************************)
(* The trainer classes and their hooks.                                    *)
(***************************************************************************)
Concrete == {"KSPolicyTrainer", "DavilaPolicyTrainer",
             "DavilaASPolicyTrainer", "JFVPolicyTrainer"}

Classes == {"PolicyTrainer"} \cup Concrete

Hooks == {"loss", "simul_shocks", "update_policydataset", "get_valuedataset"}

\* A mutant of Implemented: the base's update_policydataset is a silent no-op.
ImplementedSilentNoOp(c, hook) == c \in Concrete \/ hook = "update_policydataset"

\* Whether class c's method `hook` has a body other than raise NotImplementedError:
\* the base raises in all four, every concrete class overrides all four.
Implemented(c, hook) == c \in Concrete

NoDS == [none |-> TRUE]
NoOpt == [unset |-> TRUE]

\* init_ds.get_policydataset(policy, kind, update_init): a fresh dataset, no epoch used.
get_policydataset(policy, update_init) ==
    [epoch_used |-> 0, policy |-> policy, update_init |-> update_init]

\* policy_ds.next_batch(batch_size): the epoch counter stays or, when the draw wraps
\* around the buffer, advances by one (inc).
next_batch(ds, inc) == [ds EXCEPT !.epoch_used = @ + inc]

\* A mutant of ResampleDue: the threshold itself already triggers the refresh.
ResampleDueAtThreshold(epoch_used, cfg) == epoch_used >= cfg.epoch_resample

\* The refresh condition of sampler.
ResampleDue(epoch_used, cfg) == epoch_used > cfg.epoch_resample

\* update_policydataset(update_init) of a concrete trainer.
update_policydataset(update_init) == get_policydataset("current_c_policy", update_init)

\* sampler(batch_size, update_init) on a trainer of class c whose dataset is ds:
\* what it raises or returns, the dataset it leaves, and what it did.
sampler(c, ds, cfg, update_init, inc) ==
    IF ds = NoDS
    THEN [raised |-> TRUE, ds |-> ds, shocks |-> 0, regen |-> 0,
          eu_before |-> 0, eu_read |-> 0]
    ELSE LET d1 == next_batch(ds, inc) IN
         IF ~Implemented(c, "simul_shocks")
         THEN [raised |-> TRUE, ds |-> d1, shocks |-> 0, regen |-> 0,
               eu_before |-> ds.epoch_used, eu_read |-> d1.epoch_used]
         ELSE IF ResampleDue(d1.epoch_used, cfg)
         THEN IF Implemented(c, "update_policydataset")
              THEN [raised |-> FALSE, ds |-> update_policydataset(update_init),
                    shocks |-> 1, regen |-> 1,
                    eu_before |-> ds.epoch_used, eu_read |-> d1.epoch_used]
              ELSE [raised |-> TRUE, ds |-> d1, shocks |-> 1, regen |-> 0,
                    eu_before |-> ds.epoch_used, eu_read |-> d1.epoch_used]
         ELSE [raised |-> FALSE, ds |-> d1, shocks |-> 1, regen |-> 0,
               eu_before |-> ds.epoch_used, eu_read |-> d1.epoch_used]

\* A mutant of PreconditionOK: the assert is gone.
PreconditionDropped(batch_size, cfg) == TRUE

\* assert batch_size <= self.valid_size
PreconditionOK(batch_size, cfg) == batch_size <= cfg.valid_size

\* A mutant of RetrainDue: the test n_step > 0 is forgotten.
RetrainDueAtZero(n_step, cfg) ==
    cfg.value_sampling # "bchmk" /\ n_step % cfg.freq_update_v = 0

\* The cadence test of train.
RetrainDue(n_step, cfg) ==
    cfg.value_sampling # "bchmk" /\ n_step % cfg.freq_update_v = 0 /\ n_step > 0

\* n_epoch = num_step // freq_valid
NEpoch(num_step, cfg) == num_step \div cfg.freq_valid

EvZero ==
    [samp |-> 0, shocks |-> 0, upd |-> 0, vds |-> 0, vtrained |-> 0,
     regen |-> 0, checked |-> 0, retrained |-> {}, cur |-> <<>>,
     cur_vds |-> 0, open |-> FALSE, cycles |-> 0]

SmpNone ==
    [called |-> FALSE, eu_before |-> 0, eu_read |-> 0, regen |-> 0,
     update_init |-> FALSE, raised |-> FALSE, ds |-> NoDS]

TrNone ==
    [num_step |-> 0, batch_size |-> 0, n_epoch |-> 0, n |-> 0, step |-> 0,
     update_init |-> FALSE, vi |-> 0]

LsIdle == [on |-> FALSE]
SvIdle == [on |-> FALSE]
GtIdle == [on |-> FALSE]
PsIdle == [on |-> FALSE]

Configs ==
    [value_sampling : {"bchmk", "nn"},
     freq_update_v : 1..MaxFreqUpdateV,
     freq_valid : 1..MaxFreqValid,
     epoch_resample : 0..MaxEpochResample,
     update_init : BOOLEAN,
     valid_size : {ValidSize},
     num_vnet : 1..MaxVnet]

\* The trainer after construction: the base leaves policy_ds None, a concrete class
\* seeds it from the initial policy with update_init=False; no optimizer yet.
Init ==
    /\ cls \in Classes
    /\ config \in Configs
    /\ policy_ds = IF cls \in Concrete
                   THEN get_policydataset("init_policy", FALSE)
                   ELSE NoDS
    /\ weights = 0
    /\ optimizer = NoOpt
    /\ pc = "idle"
    /\ tr = TrNone
    /\ ev = EvZero
    /\ smp = SmpNone
    /\ last = [op |-> "none", result |-> "none"]
    /\ snap = [weights |-> 0, policy_ds |-> policy_ds]
    /\ calls = 0
    /\ ls = LsIdle
    /\ sv = SvIdle
    /\ gt = GtIdle
    /\ ps = PsIdle

\* A public call begins: the record of the previous call is dropped and the
\* snapshot is taken.
BeginUpTo(op, limit) ==
    /\ pc = "idle"
    /\ calls < limit
    /\ calls' = calls + 1
    /\ snap' = [weights |-> weights, policy_ds |-> policy_ds]

Begin(op) == BeginUpTo(op, MaxCalls)

Raise(op) == /\ pc' = "idle"
             /\ last' = [op |-> op, result |-> "raised"]

Return(op) == /\ pc' = "idle"
              /\ last' = [op |-> op, result |-> "returned"]

(***************************************************************************)
(* train(num_step, batch_size), statement by statement.                    *)
(***************************************************************************)

\* Lines 127-133: the learning-rate schedule is built (no state touched), then the
\* assert either raises or lets the call go on.
TrainEnter(num_step, batch_size) ==
    /\ ev' = EvZero
    /\ tr' = [TrNone EXCEPT !.num_step = num_step, !.batch_size = batch_size]
    /\ IF PreconditionOK(batch_size, config)
       THEN /\ pc' = "t_opt"
            /\ last' = [op |-> "train", result |-> "running"]
       ELSE Raise("train")
    /\ smp' = SmpNone
    /\ UNCHANGED <<cls, config, policy_ds, weights, optimizer, ls, sv, gt, ps>>

TrainCall(num_step, batch_size) ==
    /\ Begin("train")
    /\ TrainEnter(num_step, batch_size)

\* Lines 134-137: a new Adam optimizer replaces self.optimizer.
TrainOptimizer ==
    /\ pc = "t_opt"
    /\ optimizer' = [iterations |-> 0]
    /\ pc' = "t_valid"
    /\ UNCHANGED <<cls, config, policy_ds, weights, tr, ev, smp, last, snap,
                   calls, ls, sv, gt, ps>>

\* The position after the body of inner step (n, step) and, when the epoch is
\* over, after its validation: the next statement of the two nested loops.
AfterLog(t, cfg) ==
    IF t.step + 1 < cfg.freq_valid
    THEN [pc |-> "t_sample", tr |-> [t EXCEPT !.step = @ + 1]]
    ELSE [pc |-> "t_validate", tr |-> t]

\* Lines 140-152: the validation shocks are drawn with simul_shocks, then the loop
\* locals are set: n_epoch = num_step // freq_valid, update_init = False.
TrainValidShocks ==
    /\ pc = "t_valid"
    /\ IF Implemented(cls, "simul_shocks")
       THEN LET ne == NEpoch(tr.num_step, config) IN
            /\ ev' = [ev EXCEPT !.shocks = @ + 1]
            /\ tr' = [tr EXCEPT !.n_epoch = ne, !.n = 0, !.step = 0,
                                !.update_init = FALSE]
            /\ IF ne > 0
               THEN pc' = "t_sample" /\ UNCHANGED last
               ELSE Return("train")
       ELSE /\ Raise("train")
            /\ UNCHANGED <<ev, tr>>
    /\ UNCHANGED <<cls, config, policy_ds, weights, optimizer, smp, snap,
                   calls, ls, sv, gt, ps>>

\* Line 155: train_data = self.sampler(batch_size, update_init)
TrainSample ==
    /\ pc = "t_sample"
    /\ \E inc \in {0, 1} :
         LET r == sampler(cls, policy_ds, config, tr.update_init, inc) IN
         /\ policy_ds' = r.ds
         /\ smp' = [called |-> TRUE, eu_before |-> r.eu_before,
                    eu_read |-> r.eu_read, regen |-> r.regen,
                    update_init |-> tr.update_init, raised |-> r.raised,
                    ds |-> r.ds]
         /\ ev' = [ev EXCEPT !.samp = @ + 1, !.shocks = @ + r.shocks,
                             !.regen = @ + r.regen]
         /\ IF r.raised
            THEN Raise("train")
            ELSE pc' = "t_step" /\ UNCHANGED last
    /\ UNCHANGED <<cls, config, weights, optimizer, tr, snap, calls, ls, sv, gt, ps>>

\* Line 156: k_end = self.train_step(train_data): grad (which calls loss), then one
\* optimizer update of the policy weights.
TrainStep ==
    /\ pc = "t_step"
    /\ IF Implemented(cls, "loss") /\ optimizer # NoOpt
       THEN /\ weights' = weights + 1
            /\ optimizer' = [optimizer EXCEPT !.iterations = @ + 1]
            /\ ev' = [ev EXCEPT !.upd = @ + 1]
            /\ pc' = "t_check"
            /\ UNCHANGED last
       ELSE /\ Raise("train")
            /\ UNCHANGED <<weights, optimizer, ev>>
    /\ UNCHANGED <<cls, config, policy_ds, tr, smp, snap, calls, ls, sv, gt, ps>>

\* A mutant of UpdateInitAfterRetrain: the flag is switched on whatever the
\* configuration says.
UpdateInitForcedOn(cfg) == TRUE

\* Line 159: update_init = self.policy_config["update_init"]
UpdateInitAfterRetrain(cfg) == cfg.update_init

\* Lines 157-159: n_step = n*freq_valid + step and the cadence test; when it is due,
\* update_init takes the configured value and a retraining cycle begins.
TrainCheck ==
    /\ pc = "t_check"
    /\ LET n_step == tr.n * config.freq_valid + tr.step IN
       IF RetrainDue(n_step, config)
       THEN /\ tr' = [tr EXCEPT !.update_init = UpdateInitAfterRetrain(config)]
            /\ ev' = [ev EXCEPT !.checked = @ + 1,
                                !.retrained = @ \cup {n_step},
                                !.open = TRUE, !.cur = <<>>, !.cur_vds = 0,
                                !.cycles = @ + 1]
            /\ pc' = "t_getvds"
       ELSE /\ ev' = [ev EXCEPT !.checked = @ + 1]
            /\ pc' = "t_log"
            /\ UNCHANGED tr
    /\ UNCHANGED <<cls, config, policy_ds, weights, optimizer, smp, last, snap,
                   calls, ls, sv, gt, ps>>

\* Line 160: train_vds, valid_vds = self.get_valuedataset(update_init)
TrainGetValueDataset ==
    /\ pc = "t_getvds"
    /\ IF Implemented(cls, "get_valuedataset")
       THEN /\ ev' = [ev EXCEPT !.vds = @ + 1, !.cur_vds = @ + 1]
            /\ tr' = [tr EXCEPT !.vi = 1]
            /\ pc' = "t_vtrain"
            /\ UNCHANGED last
       ELSE /\ Raise("train")
            /\ UNCHANGED <<ev, tr>>
    /\ UNCHANGED <<cls, config, policy_ds, weights, optimizer, smp, snap,
                   calls, ls, sv, gt, ps>>

\* A mutant of VtrainerLoopDone: the loop stops one member early.
VtrainerLoopDoneEarly(vi, cfg) == vi + 1 >= cfg.num_vnet

\* for vtr in self.vtrainers: whether member vi was the last one.
VtrainerLoopDone(vi, cfg) == vi >= cfg.num_vnet

\* Lines 161-166: one pass of the loop over self.vtrainers: member vi is retrained
\* to completion; after the last member the cycle is over.
TrainVtrainer ==
    /\ pc = "t_vtrain"
    /\ ev' = [ev EXCEPT !.vtrained = @ + 1, !.cur = Append(@, tr.vi),
                        !.open = ~VtrainerLoopDone(tr.vi, config)]
    /\ IF VtrainerLoopDone(tr.vi, config)
       THEN pc' = "t_log" /\ UNCHANGED tr
       ELSE pc' = "t_vtrain" /\ tr' = [tr EXCEPT !.vi = @ + 1]
    /\ UNCHANGED <<cls, config, policy_ds, weights, optimizer, smp, last, snap,
                   calls, ls, sv, gt, ps>>

\* Lines 169-171: the step's training loss is logged and the metric reset.
TrainLog ==
    /\ pc = "t_log"
    /\ pc' = AfterLog(tr, config).pc
    /\ tr' = AfterLog(tr, config).tr
    /\ UNCHANGED <<cls, config, policy_ds, weights, optimizer, ev, smp, last,
                   snap, calls, ls, sv, gt, ps>>

\* Lines 172-180: the validation loss of the epoch; then the next epoch or the end.
TrainValidate ==
    /\ pc = "t_validate"
    /\ IF tr.n + 1 < tr.n_epoch
       THEN /\ tr' = [tr EXCEPT !.n = @ + 1, !.step = 0]
            /\ pc' = "t_sample"
            /\ UNCHANGED last
       ELSE /\ Return("train")
            /\ UNCHANGED tr
    /\ UNCHANGED <<cls, config, policy_ds, weights, optimizer, ev, smp, snap,
                   calls, ls, sv, gt, ps>>

(***************************************************************************)
(* The other methods, called directly on the instance.                     *)
(***************************************************************************)

\* sampler(batch_size, update_init)
SamplerCall(update_init) ==
    /\ Begin("sampler")
    /\ \E inc \in {0, 1} :
         LET r == sampler(cls, policy_ds, config, update_init, inc) IN
         /\ policy_ds' = r.ds
         /\ smp' = [called |-> TRUE, eu_before |-> r.eu_before,
                    eu_read |-> r.eu_read, regen |-> r.regen,
                    update_init |-> update_init, raised |-> r.raised,
                    ds |-> r.ds]
         /\ ev' = [EvZero EXCEPT !.samp = 1, !.shocks = r.shocks,
                                 !.regen = r.regen]
         /\ IF r.raised THEN Raise("sampler") ELSE Return("sampler")
    /\ tr' = TrNone
    /\ UNCHANGED <<cls, config, weights, optimizer, ls, sv, gt, ps>>

\* grad(input_data): calls loss, changes no weights.
GradCall ==
    /\ Begin("grad")
    /\ ev' = EvZero
    /\ IF Implemented(cls, "loss") THEN Return("grad") ELSE Raise("grad")
    /\ tr' = TrNone /\ smp' = SmpNone
    /\ UNCHANGED <<cls, config, policy_ds, weights, optimizer, ls, sv, gt, ps>>

\* train_step(train_data): grad, then self.optimizer.apply_gradients.
TrainStepBody ==
    /\ IF Implemented(cls, "loss") /\ optimizer # NoOpt
       THEN /\ weights' = weights + 1
            /\ optimizer' = [optimizer EXCEPT !.iterations = @ + 1]
            /\ ev' = [EvZero EXCEPT !.upd = 1]
            /\ Return("train_step")
       ELSE /\ ev' = EvZero
            /\ Raise("train_step")
            /\ UNCHANGED <<weights, optimizer>>
    /\ tr' = TrNone /\ smp' = SmpNone
    /\ UNCHANGED <<cls, config, policy_ds, ls, sv, gt, ps>>

TrainStepCall ==
    /\ Begin("train_step")
    /\ TrainStepBody

\* The default of update_init in update_policydataset and get_valuedataset: True in
\* DavilaPolicyTrainer, False in the other classes.
DefaultUpdateInit(c) == c = "DavilaPolicyTrainer"

\* One of the four variant hooks called by itself, with its default arguments.
HookCall(hook) ==
    /\ Begin(hook)
    /\ IF Implemented(cls, hook)
       THEN /\ Return(hook)
            /\ IF hook = "update_policydataset"
               THEN /\ policy_ds' = update_policydataset(DefaultUpdateInit(cls))
                    /\ ev' = [EvZero EXCEPT !.regen = 1]
               ELSE /\ UNCHANGED policy_ds
                    /\ ev' = [EvZero EXCEPT
                                !.shocks = IF hook = "simul_shocks" THEN 1 ELSE 0,
                                !.vds = IF hook = "get_valuedataset" THEN 1 ELSE 0]
       ELSE /\ Raise(hook)
            /\ ev' = EvZero
            /\ UNCHANGED policy_ds
    /\ tr' = TrNone /\ smp' = SmpNone
    /\ UNCHANGED <<cls, config, weights, optimizer, ls, sv, gt, ps>>

Next ==
    \/ \E num_step \in 0..MaxNumStep, batch_size \in 1..(ValidSize + 1) :
         TrainCall(num_step, batch_size)
    \/ TrainOptimizer
    \/ TrainValidShocks
    \/ TrainSample
    \/ TrainStep
    \/ TrainCheck
    \/ TrainGetValueDataset
    \/ TrainVtrainer
    \/ TrainLog
    \/ TrainValidate
    \/ \E update_init \in BOOLEAN : SamplerCall(update_init)
    \/ GradCall
    \/ TrainStepCall
    \/ \E hook \in Hooks : HookCall(hook)

Spec == Init /\ [][Next]_vars

(***************************************************************************)
(* The claims about the training loop, checked under Spec.                 *)
(***************************************************************************)

\* C1: a sampler call on a concrete trainer that reads, after drawing the batch, an
\* epoch_used above epoch_resample has regenerated the dataset exactly once, from
\* the trainer's own current_c_policy with the update_init it was handed, before it
\* returned; one that reads a counter at or below the threshold has regenerated
\* nothing and left the drawn-from dataset in place.
C1_SamplerRefresh ==
    (smp.called /\ cls \in Concrete) =>
        /\ ~smp.raised
        /\ smp.eu_read > config.epoch_resample =>
              /\ smp.regen = 1
              /\ smp.ds = get_policydataset("current_c_policy", smp.update_init)
        /\ smp.eu_read <= config.epoch_resample =>
              /\ smp.regen = 0
              /\ smp.ds.epoch_used = smp.eu_read

\* C1 witness: a sampler call that found the counter above the threshold and
\* regenerated the dataset.
C1_Witness ==
    /\ smp.called
    /\ cls \in Concrete
    /\ smp.eu_read > config.epoch_resample
    /\ smp.regen = 1

\* C5: a train call whose batch_size exceeds valid_size has raised at once: nothing
\* was sampled, no shocks drawn, no gradient step, no value retraining and no
\* dataset refresh done, and weights and policy dataset are those of the call's start.
C5_PreconditionFatal ==
    (last.op = "train" /\ tr.batch_size > config.valid_size) =>
        /\ pc = "idle"
        /\ last.result = "raised"
        /\ ev = EvZero
        /\ smp = SmpNone
        /\ weights = snap.weights
        /\ policy_ds = snap.policy_ds

\* C5 witness: train was called with a batch larger than the validation set.
C5_Witness ==
    /\ last = [op |-> "train", result |-> "raised"]
    /\ tr.batch_size > config.valid_size

\* The global inner steps below `upto` at which the cadence asks for a retraining.
DueSteps(upto, cfg) ==
    {k \in 0..(upto - 1) :
        cfg.value_sampling # "bchmk" /\ k > 0 /\ k % cfg.freq_update_v = 0}

\* C6: within train, the inner steps at which a retraining cycle ran are exactly the
\* steps n_step > 0 that are multiples of freq_update_v, and none when value_sampling
\* is "bchmk": then no value dataset is requested and no value trainer retrained.
C6_RetrainCadence ==
    last.op = "train" =>
        /\ ev.retrained = DueSteps(ev.checked, config)
        /\ ev.cycles = Cardinality(ev.retrained)
        /\ ev.vds <= ev.cycles
        /\ ev.vtrained <= ev.cycles * config.num_vnet
        /\ config.value_sampling = "bchmk" => ev.vds = 0 /\ ev.vtrained = 0

\* C6 witness: a train call that went through a step where retraining was due and
\* through one where it was not.
C6_Witness ==
    /\ last = [op |-> "train", result |-> "returned"]
    /\ ev.retrained # {}
    /\ ev.checked > Cardinality(ev.retrained)
    /\ ev.vtrained > 0

\* C7: a retraining cycle is open only between the optimizer update of its step and
\* the step's logging: never while sampler or the gradient step runs. In a cycle the
\* value datasets are requested once, before any member is retrained, and the
\* members are retrained once each, in the order of self.vtrainers.
C7_NoOverlap ==
    last.op = "train" =>
        /\ ev.open => pc \in {"t_getvds", "t_vtrain"}
        /\ pc \in {"t_getvds", "t_vtrain"} =>
              /\ ev.open
              /\ ev.upd = ev.samp
              /\ ev.upd = ev.checked
        /\ pc = "t_getvds" => ev.cur_vds = 0 /\ ev.cur = <<>>
        /\ pc = "t_vtrain" =>
              /\ ev.cur_vds = 1
              /\ ev.cur = [i \in 1..(tr.vi - 1) |-> i]
        /\ (ev.cycles > 0 /\ ~ev.open) =>
              /\ ev.cur_vds = 1
              /\ ev.cur = [i \in 1..config.num_vnet |-> i]
              /\ ev.vds = ev.cycles
              /\ ev.vtrained = ev.cycles * config.num_vnet
        /\ pc = "t_step" => ev.samp = ev.upd + 1

\* C7 witness: the loop is back at sampler after a complete cycle over an ensemble
\* of more than one member.
C7_Witness ==
    /\ last.op = "train"
    /\ pc = "t_sample"
    /\ ev.cycles > 0
    /\ config.num_vnet > 1
    /\ ev.cur = [i \in 1..config.num_vnet |-> i]

\* C8 as claimed: a train call that returns has executed exactly num_step inner
\* steps, each one sampler call and one optimizer update.
C8_ExactlyNumStep ==
    last = [op |-> "train", result |-> "returned"] =>
        /\ ev.samp = tr.num_step
        /\ ev.upd = tr.num_step

\* C10: on the abstract base every call of a hook, and of sampler, grad, train_step
\* and train, ends by raising; no optimizer update and no dataset refresh is done.
C10_BaseFailsLoudly ==
    cls = "PolicyTrainer" =>
        /\ (pc = "idle" /\ last.op # "none") => last.result = "raised"
        /\ weights = 0
        /\ policy_ds = NoDS
        /\ ev.upd = 0
        /\ ev.regen = 0
        /\ optimizer # NoOpt => optimizer.iterations = 0

\* C10 witness: train on the base got past its assert and raised at simul_shocks.
C10_Witness ==
    /\ cls = "PolicyTrainer"
    /\ last = [op |-> "train", result |-> "raised"]
    /\ tr.batch_size <= config.valid_size
    /\ optimizer # NoOpt

\* C15: within one train call, the update_init handed to sampler (and by sampler to
\* the dataset refresh) is False at every inner step up to and including the first
\* one at which a retraining cycle runs and policy_config["update_init"] at every
\* later step; the local flag holds the configured value from the first cycle on and
\* is False before it, so it is False for the whole call when value_sampling is
\* "bchmk" or no retraining step is reached.
C15_UpdateInitFlag ==
    (last.op = "train" /\ last.result = "running" /\ pc \notin {"t_opt", "t_valid"}) =>
        LET n_step == tr.n * config.freq_valid + tr.step
            earlier == {s \in ev.retrained : s < n_step}
        IN /\ pc \in {"t_step", "t_check"} =>
                /\ smp.called
                /\ smp.update_init =
                     (IF earlier # {} THEN config.update_init ELSE FALSE)
                /\ smp.regen = 1 => policy_ds.update_init = smp.update_init
           /\ tr.update_init =
                (IF ev.retrained # {} THEN config.update_init ELSE FALSE)
           /\ config.value_sampling = "bchmk" => ev.retrained = {} /\ ~tr.update_init

\* After a retraining cycle of a trainer configured with update_init = True, a
\* later step's sampler call got True and refreshed the dataset with it.
C15_Witness ==
    /\ last.op = "train" /\ last.result = "running" /\ pc = "t_step"
    /\ config.update_init
    /\ ev.retrained # {}
    /\ smp.called /\ smp.update_init /\ smp.regen = 1
    /\ policy_ds.update_init

(***************************************************************************)
(* One loss evaluation, period by period, for one sample and one agent.    *)
(*                                                                         *)
(* Quantities are exact multiples of a fixed-point unit.  A share is       *)
(* c_share/ShareDen with 0 < c_share < ShareDen, dt is 1/DtDen, and the    *)
(* inputs of period 0 (k_cross, the labour income) are multiples of Grid = *)
(* ShareDen^(MaxT-1) units, so that every product share * wealth of the    *)
(* MaxT-1 non-terminal periods is a whole number of units.  One Grid is    *)
(* EPSILON/DtDen.  The return factor (R, or 1 + r*dt in JFV) and the       *)
(* income term (wage times the shock-dependent labour endowment) come from *)
(* real powers of the mean capital and are drawn as inputs of the period;  *)
(* so is JFV's increment dN_drift + dN_diff.                               *)
(***************************************************************************)
MaxT == 3        \* policy_config["t_unroll"] in 1..MaxT
ShareDen == 4    \* consumption shares 1/ShareDen .. (ShareDen-1)/ShareDen
DtDen == 2       \* mparam.dt = 1/DtDen
MaxK0 == 2       \* k_cross of the batch in 0..MaxK0 Grid
MaxIncome == 2   \* labour income of a period in 1..MaxIncome Grid
MaxR == 2        \* return factor of a period in 1..MaxR
MaxWealth == 6   \* periods whose wealth exceeds MaxWealth Grid are not explored
MaxN == 3        \* N of the batch in 0..MaxN units of 0.005
MaxDN == 2       \* dN_drift + dN_diff of a period in -MaxDN..MaxDN units of 0.005
MaxValueOut == 1 \* an output of a value network in 0..MaxValueOut
BetaNum == 1     \* mparam.beta = BetaNum/BetaDen
BetaDen == 2

\* The statistics init_ds.unnormalize_data uses for key "value".
VALUE_STD == 2
VALUE_MEAN == 1

Grid == ShareDen ^ (MaxT - 1)

\* EPSILON = 1e-3
EPSILON == DtDen * Grid

\* The floor of N in JFV, 0.01, in units of 0.005.
N_FLOOR == 2

Min(a, b) == IF a <= b THEN a ELSE b
Max(a, b) == IF a >= b THEN a ELSE b

\* tf.clip_by_value(t, lo, hi) = maximum(minimum(t, hi), lo): lo wins when lo > hi.
clip_by_value(t, lo, hi) == Max(Min(t, hi), lo)

\* wealth = R * k_cross + income  (JFV: (1 + r*dt) * k_cross + wage * dt)
Wealth(R, k_cross, income) == R * k_cross + income

\* What consumption is bounded by: wealth, in JFV wealth / dt.
WealthRate(c, wealth) ==
    IF c = "JFVPolicyTrainer" THEN wealth * DtDen ELSE wealth

\* csmp of a non-terminal period.
Csmp(c, c_share, wealth) ==
    CASE c \in {"KSPolicyTrainer", "DavilaASPolicyTrainer"} ->
            clip_by_value((c_share * wealth) \div ShareDen, EPSILON, wealth - EPSILON)
      [] c = "DavilaPolicyTrainer" ->
            (c_share * wealth) \div ShareDen
      [] c = "JFVPolicyTrainer" ->
            clip_by_value((c_share * wealth * DtDen) \div ShareDen, EPSILON,
                          wealth * DtDen - EPSILON)

\* k_cross = wealth - csmp  (JFV: wealth - csmp * dt)
NextK(c, wealth, csmp) ==
    IF c = "JFVPolicyTrainer" THEN wealth - csmp \div DtDen ELSE wealth - csmp

\* N = tf.maximum(N + dN_drift + dN_diff, 0.01)
NextN(N, dN) == Max(N + dN, N_FLOOR)

LossConfigs == [t_unroll : 1..MaxT, num_vnet : 1..MaxVnet]

\* A concrete trainer about to evaluate loss.
InitLoss ==
    /\ cls \in Concrete
    /\ config \in LossConfigs
    /\ policy_ds = get_policydataset("init_policy", FALSE)
    /\ weights = 0
    /\ optimizer = NoOpt
    /\ pc = "idle"
    /\ tr = TrNone
    /\ ev = EvZero
    /\ smp = SmpNone
    /\ last = [op |-> "none", result |-> "none"]
    /\ snap = [weights |-> 0, policy_ds |-> policy_ds]
    /\ calls = 0
    /\ ls = LsIdle
    /\ sv = SvIdle
    /\ gt = GtIdle
    /\ ps = PsIdle

\* A mutant of IsTerminal: the test is off by one and no period is the last one.
IsTerminalOffByOne(t, cfg) == t = cfg.t_unroll

\* if t == self.t_unroll - 1
IsTerminal(t, cfg) == t = cfg.t_unroll - 1

\* self.discount[t] = beta^t, as a fraction.
Discount(t) == [num |-> BetaNum ^ t, den |-> BetaDen ^ t]

\* init_ds.unnormalize_data(x, key="value"): x * std + mean with the statistics of
\* the value data.
unnormalize_data(x) == x * VALUE_STD + VALUE_MEAN

\* value = 0; for vtr in self.vtrainers: value += unnormalize_data(vtr.value_fn(...))
\* over the first n members, out[m] being the output of member m.
RECURSIVE ValueSum(_, _)
ValueSum(out, n) ==
    IF n = 0 THEN 0 ELSE ValueSum(out, n - 1) + unnormalize_data(out[n])

\* loss(input_data) is entered: k_cross (and N in JFV) are read from the batch.
LossCall(k0, N0) ==
    /\ ~ls.on
    /\ ls' = [on |-> TRUE, t |-> 0, k_cross |-> k0 * Grid,
              N |-> IF cls = "JFVPolicyTrainer" THEN N0 ELSE 0,
              wealth |-> 0, csmp |-> 0, acted |-> FALSE, transitions |-> 0,
              n_policy |-> 0, n_value |-> 0, done |-> FALSE,
              k0 |-> k0 * Grid,
              N0 |-> IF cls = "JFVPolicyTrainer" THEN N0 ELSE 0,
              policy_at |-> <<>>, value_at |-> <<>>, values |-> <<>>,
              term |-> [num |-> 0, den |-> 1]]
    /\ UNCHANGED <<cls, config, policy_ds, weights, optimizer, pc, tr, ev, smp,
                   last, snap, calls, sv, gt, ps>>

\* One pass of `for t in range(self.t_unroll)`: the last period evaluates the value
\* ensemble, adds discount[t] * value to util_sum and leaves k_cross and N alone;
\* every other period calls the policy network and advances k_cross (and N in JFV).
LossPeriod ==
    /\ ls.on
    /\ ~ls.done
    /\ ls.t < config.t_unroll
    /\ IF IsTerminal(ls.t, config)
       THEN \E out \in [1..config.num_vnet -> 0..MaxValueOut] :
              ls' = [ls EXCEPT
                       !.t = @ + 1,
                       !.n_value = @ + config.num_vnet,
                       !.value_at = @ \o [m \in 1..config.num_vnet |-> <<ls.t, m>>],
                       !.values = out,
                       !.term = [num |-> Discount(ls.t).num
                                           * ValueSum(out, config.num_vnet),
                                 den |-> Discount(ls.t).den * config.num_vnet],
                       !.acted = FALSE,
                       !.done = (ls.t + 1 = config.t_unroll)]
       ELSE \E R \in 1..MaxR, income \in 1..MaxIncome, c_share \in 1..(ShareDen - 1),
               dN \in (-MaxDN)..MaxDN :
              LET wealth == Wealth(R, ls.k_cross, income * Grid)
                  csmp == Csmp(cls, c_share, wealth)
              IN /\ wealth <= MaxWealth * Grid
                 /\ wealth >= -(MaxWealth * Grid)
                 /\ cls # "JFVPolicyTrainer" => dN = 0
                 /\ ls.N + dN <= MaxN
                 /\ ls' = [ls EXCEPT
                             !.t = @ + 1,
                             !.n_policy = @ + 1,
                             !.policy_at = Append(@, ls.t),
                             !.wealth = wealth,
                             !.csmp = csmp,
                             !.k_cross = NextK(cls, wealth, csmp),
                             !.N = IF cls = "JFVPolicyTrainer"
                                   THEN NextN(ls.N, dN) ELSE @,
                             !.transitions = @ + 1,
                             !.acted = TRUE,
                             !.done = (ls.t + 1 = config.t_unroll)]
    /\ UNCHANGED <<cls, config, policy_ds, weights, optimizer, pc, tr, ev, smp,
                   last, snap, calls, sv, gt, ps>>

\* loss returns its output_dict.
LossReturn ==
    /\ ls.on
    /\ ls.done
    /\ ls' = LsIdle
    /\ UNCHANGED <<cls, config, policy_ds, weights, optimizer, pc, tr, ev, smp,
                   last, snap, calls, sv, gt, ps>>

NextLoss ==
    \/ \E k0 \in 0..MaxK0, N0 \in 0..MaxN : LossCall(k0, N0)
    \/ LossPeriod
    \/ LossReturn

SpecLoss == InitLoss /\ [][NextLoss]_vars

(***************************************************************************)
(* The claims about the loss recursions, checked under SpecLoss.           *)
(***************************************************************************)

\* C2 as claimed: after every non-terminal period of the KS, DavilaAS and JFV
\* recursions, EPSILON <= csmp <= wealth - EPSILON (wealth/dt - EPSILON in JFV) and
\* the new k_cross is at least EPSILON (EPSILON*dt in JFV), whatever the wealth.
C2_ClampedConsumption ==
    (ls.on /\ ls.acted /\ cls # "DavilaPolicyTrainer") =>
        /\ EPSILON <= ls.csmp
        /\ ls.csmp <= WealthRate(cls, ls.wealth) - EPSILON
        /\ ls.k_cross >= (IF cls = "JFVPolicyTrainer"
                          THEN EPSILON \div DtDen ELSE EPSILON)
        /\ ls.k_cross >= 0

\* C3 as claimed, for the variant the claim singles out: after every non-terminal
\* period of the Davila recursion consumption lies inside (0, wealth) with the
\* margin EPSILON of a clip, and the new k_cross is not negative.
C3_DavilaClipped ==
    (ls.on /\ ls.acted /\ cls = "DavilaPolicyTrainer") =>
        /\ 0 < ls.csmp
        /\ ls.csmp < ls.wealth
        /\ EPSILON <= ls.csmp
        /\ ls.csmp <= ls.wealth - EPSILON
        /\ ls.k_cross >= 0

\* C4 as claimed: in the JFV recursion N is at least 0.01 in every period of the
\* unroll, the first one (where N is the batch's value) included.
C4_NAboveFloor ==
    (ls.on /\ cls = "JFVPolicyTrainer") => ls.N >= N_FLOOR

\* The arithmetic mean of the unnormalized outputs in values, times den.
RECURSIVE SumOfUnnormalized(_)
SumOfUnnormalized(values) ==
    IF values = <<>> THEN 0
    ELSE unnormalize_data(Head(values)) + SumOfUnnormalized(Tail(values))

\* C14: when the loop of one loss evaluation with horizon T = t_unroll is over, the
\* policy network was invoked exactly once in each of the periods 0..T-2 and not in
\* period T-1; every member of the value ensemble was evaluated exactly once, all in
\* period T-1; the terminal term is discount[T-1] times the arithmetic mean of the
\* unnormalized value outputs; and k_cross (and N) made exactly T-1 transitions, the
\* terminal period leaving them alone, so that they are the batch's values when T = 1.
C14_TerminalPeriod ==
    (ls.on /\ ls.done) =>
        LET T == config.t_unroll IN
        /\ ls.policy_at = [t \in 1..(T - 1) |-> t - 1]
        /\ ls.value_at = [m \in 1..config.num_vnet |-> <<T - 1, m>>]
        /\ Len(ls.values) = config.num_vnet
        /\ ls.term.num * (BetaDen ^ (T - 1)) * config.num_vnet
             = (BetaNum ^ (T - 1)) * SumOfUnnormalized(ls.values) * ls.term.den
        /\ ls.transitions = T - 1
        /\ ~ls.acted
        /\ T = 1 => ls.k_cross = ls.k0 /\ ls.N = ls.N0

\* A loss evaluation over three periods with a two-member ensemble is over: two
\* policy calls, two transitions, and a terminal term that is not zero.
C14_Witness ==
    /\ ls.on /\ ls.done
    /\ config.t_unroll = 3 /\ config.num_vnet = 2
    /\ Len(ls.policy_at) = 2 /\ Len(ls.value_at) = 2
    /\ ls.transitions = 2
    /\ ls.values = <<0, 1>>
    /\ ls.term.num > 0

(***************************************************************************)
(* save_model and the load of __init__.                                    *)
(*                                                                         *)
(* A path is a directory, a stem (a sequence of name pieces) and an        *)
(* extension: policy_path = dir/stem+ext.  A file holds the kind and the   *)
(* generation of what was written to it last.  The trainer's weights and   *)
(* normalization statistics are of generation sv.gen, which training       *)
(* advances.                                                               *)
(***************************************************************************)
MaxGen == 2      \* generations of weights a trainer goes through
MaxSaves == 2    \* save_model calls

Dirs == {"run_a", "run_b"}
Exts == {"", ".weights.h5"}

\* What callers pass as path: the default "policy_model" and names with the suffix.
UserPaths == [dir : Dirs, stem : {<<"policy_model">>}, ext : Exts]

\* path.replace(".weights.h5", "_gm.weights.h5")
GmPath(path) ==
    IF path.ext = ".weights.h5"
    THEN [path EXCEPT !.stem = Append(@, "_gm")]
    ELSE path

\* os.path.dirname(path)
Dirname(path) == path.dir

AllPaths == UserPaths \cup {GmPath(p) : p \in UserPaths}

NoFile == [kind |-> "none", gen |-> 0]

\* save_weights(path) of a network whose weights are of generation gen.
save_weights(fs, path, kind, gen) ==
    [fs EXCEPT ![path] = [kind |-> kind, gen |-> gen]]

\* save_model(path): the policy weights, the statistics, then the moment network.
save_model(v, cfg, path) ==
    LET fs1 == save_weights(v.fs, path, "policy", v.gen)
        fs2 == IF cfg.n_gm > 0
               THEN save_weights(fs1, GmPath(path), "gm", v.gen)
               ELSE fs1
    IN [v EXCEPT !.fs = fs2,
                 !.stats = [@ EXCEPT ![Dirname(path)] = [kind |-> "stats", gen |-> v.gen]],
                 !.saved = [at |-> TRUE, path |-> path, gen |-> v.gen],
                 !.saves = @ + 1,
                 !.loaded = [at |-> FALSE]]

\* __init__ with policy_path: what the new trainer holds after lines 41-45.
load_model(v, cfg, path) ==
    [at |-> TRUE, path |-> path,
     policy |-> v.fs[path],
     gm |-> IF cfg.n_gm > 0 THEN v.fs[GmPath(path)] ELSE NoFile,
     stats |-> v.stats[Dirname(path)]]

InitSave ==
    /\ cls \in Concrete
    /\ config \in [n_gm : {0, 1}]
    /\ policy_ds = get_policydataset("init_policy", FALSE)
    /\ weights = 0
    /\ optimizer = NoOpt
    /\ pc = "idle"
    /\ tr = TrNone
    /\ ev = EvZero
    /\ smp = SmpNone
    /\ last = [op |-> "none", result |-> "none"]
    /\ snap = [weights |-> 0, policy_ds |-> policy_ds]
    /\ calls = 0
    /\ ls = LsIdle
    /\ sv = [on |-> TRUE, gen |-> 0,
             fs |-> [p \in AllPaths |-> NoFile],
             stats |-> [d \in Dirs |-> NoFile],
             saved |-> [at |-> FALSE], loaded |-> [at |-> FALSE],
             saves |-> 0, raised |-> FALSE]
    /\ gt = GtIdle
    /\ ps = PsIdle

\* Training goes on: weights and statistics move to the next generation.
SaveTrainMore ==
    /\ sv.gen < MaxGen
    /\ sv' = [sv EXCEPT !.gen = @ + 1, !.raised = FALSE]
    /\ UNCHANGED <<cls, config, policy_ds, weights, optimizer, pc, tr, ev, smp,
                   last, snap, calls, ls, gt, ps>>

\* save_model(path).  A name without the .weights.h5 suffix is either written as
\* given or refused by save_weights (which then raises before anything is
\* written), depending on the Keras in use.
SaveModel(path, accepted) ==
    /\ sv.saves < MaxSaves
    /\ IF path.ext = ".weights.h5" \/ accepted
       THEN sv' = [save_model(sv, config, path) EXCEPT !.raised = FALSE]
       ELSE sv' = [sv EXCEPT !.raised = TRUE, !.saves = @ + 1]
    /\ UNCHANGED <<cls, config, policy_ds, weights, optimizer, pc, tr, ev, smp,
                   last, snap, calls, ls, gt, ps>>

\* A trainer is constructed with policy_path = path, the files being there.
Construct(path) ==
    /\ sv.fs[path] # NoFile
    /\ config.n_gm > 0 => sv.fs[GmPath(path)] # NoFile
    /\ sv.stats[Dirname(path)] # NoFile
    /\ sv' = [sv EXCEPT !.loaded = load_model(sv, config, path), !.raised = FALSE]
    /\ UNCHANGED <<cls, config, policy_ds, weights, optimizer, pc, tr, ev, smp,
                   last, snap, calls, ls, gt, ps>>

NextSave ==
    \/ SaveTrainMore
    \/ \E path \in UserPaths, accepted \in BOOLEAN : SaveModel(path, accepted)
    \/ \E path \in UserPaths : Construct(path)

SpecSave == InitSave /\ [][NextSave]_vars

\* C9 as claimed: a trainer constructed from the path of the save_model call that
\* completed last holds the policy weights, the moment-network weights (n_gm > 0)
\* and the statistics of that call's generation, and the two weight files have
\* distinct names, whatever the path.
C9_RoundTrip ==
    (sv.on /\ sv.loaded.at /\ sv.saved.at /\ sv.loaded.path = sv.saved.path) =>
        /\ sv.loaded.policy = [kind |-> "policy", gen |-> sv.saved.gen]
        /\ sv.loaded.stats = [kind |-> "stats", gen |-> sv.saved.gen]
        /\ config.n_gm > 0 =>
              /\ sv.loaded.gm = [kind |-> "gm", gen |-> sv.saved.gen]
              /\ GmPath(sv.saved.path) # sv.saved.path

(***************************************************************************)
(* What the outputs of loss are differentiable in.                         *)
(*                                                                         *)
(* The share output of agent i in period t is the tensor entry             *)
(* policy_fn(...)[..., 0][:, i] of that period, named <<t, i>>.  Every     *)
(* quantity of the recursion carries two sets of such outputs: g, the ones *)
(* a gradient flows back to, and v, the ones its value depends on.  An     *)
(* operation joins the sets of its operands; tf.stop_gradient keeps v and  *)
(* empties g.  A clip that is active passes the gradient of the bound it   *)
(* returns, not of the clipped tensor.                                     *)
(***************************************************************************)
MaxAgt == 2      \* mparam.n_agt in 1..MaxAgt

NoDep == [g |-> {}, v |-> {}]

\* The result of an operation on a and b.
Join(a, b) == [g |-> a.g \cup b.g, v |-> a.v \cup b.v]

\* A reduction (tf.reduce_mean, a sum) over the agents of f.
JoinAll(f) == [g |-> UNION {f[i].g : i \in DOMAIN f},
               v |-> UNION {f[i].v : i \in DOMAIN f}]

\* A mutant of StopGradient: the gradient passes.
StopGradientTransparent(d) == d

\* tf.stop_gradient
StopGradient(d) == [g |-> {}, v |-> d.v]

\* policy_fn(full_state_dict)[..., 0] for agent i in period t: the output itself and
\* whatever its input state depends on.
PolicyOutput(t, i, state) == Join([g |-> {<<t, i>>}, v |-> {<<t, i>>}], state)

\* c_share after `if opt_type == "game"`: column 0 as it is, the other columns
\* through tf.stop_gradient.
GameShare(opt_type, i, raw) ==
    IF opt_type = "game" /\ i >= 1 THEN StopGradient(raw) ELSE raw

\* tf.clip_by_value(x, EPSILON, hi): x inside the bounds, EPSILON, or hi.
ClipDep(how, x, hi) ==
    CASE how = "in" -> x
      [] how = "lo" -> [g |-> {}, v |-> x.v \cup hi.v]
      [] how = "hi" -> [g |-> hi.g, v |-> x.v \cup hi.v]

\* How the clip of csmp can come out in class c: Davila has no clip.
ClipOutcomes(c) == IF c = "DavilaPolicyTrainer" THEN {"in"} ELSE {"in", "lo", "hi"}

GradConfigs ==
    [t_unroll : 1..MaxT, n_agt : 1..MaxAgt, opt_type : {"socialplanner", "game"},
     grad_penalty : BOOLEAN]

\* A concrete trainer about to differentiate its loss; gp_loss exists in Davila only.
InitGrad ==
    /\ cls \in Concrete
    /\ config \in GradConfigs
    /\ config.grad_penalty => cls = "DavilaPolicyTrainer"
    /\ policy_ds = get_policydataset("init_policy", FALSE)
    /\ weights = 0
    /\ optimizer = NoOpt
    /\ pc = "idle"
    /\ tr = TrNone
    /\ ev = EvZero
    /\ smp = SmpNone
    /\ last = [op |-> "none", result |-> "none"]
    /\ snap = [weights |-> 0, policy_ds |-> policy_ds]
    /\ calls = 0
    /\ ls = LsIdle
    /\ sv = SvIdle
    /\ gt = GtIdle
    /\ ps = PsIdle

Agents == 0..(config.n_agt - 1)

\* grad enters loss under the tape: k_cross, N and the shocks are data of the batch.
GradLossCall ==
    /\ ~gt.on
    /\ gt' = [on |-> TRUE, t |-> 0, done |-> FALSE, generic |-> TRUE,
              k_cross |-> [i \in Agents |-> NoDep], N |-> NoDep,
              util_sum |-> [i \in Agents |-> NoDep], gp_loss |-> NoDep,
              m_util |-> NoDep, k_end |-> NoDep, total_loss |-> NoDep]
    /\ UNCHANGED <<cls, config, policy_ds, weights, optimizer, pc, tr, ev, smp,
                   last, snap, calls, ls, sv, ps>>

\* One pass of the loop of loss, as dependencies.
GradLossPeriod ==
    /\ gt.on
    /\ ~gt.done
    /\ gt.t < config.t_unroll
    /\ LET k_mean == JoinAll(gt.k_cross)
           jfv == cls = "JFVPolicyTrainer"
           state == [i \in Agents |->
                       Join(Join(gt.k_cross[i], k_mean), IF jfv THEN gt.N ELSE NoDep)]
       IN
       IF gt.t = config.t_unroll - 1
       THEN gt' = [gt EXCEPT
                     !.t = @ + 1,
                     !.util_sum = [i \in Agents |-> Join(gt.util_sum[i], state[i])]]
       ELSE \E how \in [Agents -> ClipOutcomes(cls)], floored \in BOOLEAN :
              LET c_share == [i \in Agents |->
                                GameShare(config.opt_type, i,
                                          PolicyOutput(gt.t, i, state[i]))]
                  K == Join(gt.N, k_mean)
                  R == IF jfv THEN K ELSE k_mean
                  wealth == [i \in Agents |-> Join(R, gt.k_cross[i])]
                  csmp == [i \in Agents |->
                             ClipDep(how[i], Join(c_share[i], wealth[i]), wealth[i])]
                  wealth_gp == [i \in Agents |->
                                  Join(StopGradient(R), gt.k_cross[i])]
                  csmp_gp == [i \in Agents |-> Join(c_share[i], wealth_gp[i])]
                  gradients == Join(JoinAll(csmp_gp), k_mean)
              IN /\ floored => jfv
                 /\ gt' = [gt EXCEPT
                             !.t = @ + 1,
                             !.generic = @ /\ (\A i \in Agents : how[i] = "in"),
                             !.k_cross = [i \in Agents |-> Join(wealth[i], csmp[i])],
                             !.N = IF ~jfv THEN @
                                   ELSE IF floored THEN [g |-> {}, v |-> K.v]
                                   ELSE K,
                             !.util_sum = [i \in Agents |->
                                             Join(gt.util_sum[i], csmp[i])],
                             !.gp_loss = IF cls = "DavilaPolicyTrainer"
                                         THEN Join(@, gradients) ELSE @]
    /\ UNCHANGED <<cls, config, policy_ds, weights, optimizer, pc, tr, ev, smp,
                   last, snap, calls, ls, sv, ps>>

\* The output_dict of loss and the total_loss grad differentiates.
GradLossOutput ==
    /\ gt.on
    /\ ~gt.done
    /\ gt.t = config.t_unroll
    /\ LET m_util == IF config.opt_type = "game"
                     THEN gt.util_sum[0] ELSE JoinAll(gt.util_sum)
       IN gt' = [gt EXCEPT
                   !.done = TRUE,
                   !.m_util = m_util,
                   !.k_end = JoinAll(gt.k_cross),
                   !.total_loss = IF config.grad_penalty
                                  THEN Join(m_util, gt.gp_loss) ELSE m_util]
    /\ UNCHANGED <<cls, config, policy_ds, weights, optimizer, pc, tr, ev, smp,
                   last, snap, calls, ls, sv, ps>>

\* grad returns; the tape is deleted.
GradLossReturn ==
    /\ gt.on
    /\ gt.done
    /\ gt' = GtIdle
    /\ UNCHANGED <<cls, config, policy_ds, weights, optimizer, pc, tr, ev, smp,
                   last, snap, calls, ls, sv, ps>>

NextGrad ==
    \/ GradLossCall
    \/ GradLossPeriod
    \/ GradLossOutput
    \/ GradLossReturn

SpecGrad == InitGrad /\ [][NextGrad]_vars

\* The share outputs of the agents other than agent 0, over the non-terminal periods.
OtherShares == {<<t, i>> : t \in 0..(config.t_unroll - 2), i \in Agents \ {0}}

\* C11: with opt_type = "game", in every variant, no output of loss (m_util, gp_loss,
\* k_end) and not the total_loss that is differentiated has a gradient with respect
\* to a share output of an agent with index >= 1 in any non-terminal period; when no
\* clip is active the gradient of m_util with respect to agent 0's share output of
\* every non-terminal period is there; and m_util is agent 0's column of util_sum.
C11_GameGradient ==
    (gt.on /\ gt.done /\ config.opt_type = "game") =>
        /\ OtherShares \cap gt.total_loss.g = {}
        /\ OtherShares \cap gt.m_util.g = {}
        /\ OtherShares \cap gt.gp_loss.g = {}
        /\ OtherShares \cap gt.k_end.g = {}
        /\ gt.generic =>
             \A t \in 0..(config.t_unroll - 2) : <<t, 0>> \in gt.m_util.g
        /\ gt.m_util = gt.util_sum[0]

\* A game loss over two agents and three periods has returned, no clip active: the
\* first share of agent 1 has moved the value of m_util (through the mean capital)
\* and agent 0's first share has a gradient.
C11_Witness ==
    /\ gt.on /\ gt.done /\ config.opt_type = "game"
    /\ config.n_agt >= 2 /\ config.t_unroll >= 3
    /\ gt.generic
    /\ <<0, 1>> \in gt.m_util.v
    /\ <<0, 0>> \in gt.m_util.g

(***************************************************************************)
(* Several train and train_step calls on one concrete trainer.             *)
(***************************************************************************)
MaxTrainCalls == 3    \* train / train_step calls made on the instance

InitRepeat ==
    /\ Init
    /\ cls \in Concrete

TrainAgain(num_step, batch_size) ==
    /\ BeginUpTo("train", MaxTrainCalls)
    /\ TrainEnter(num_step, batch_size)

TrainStepAgain ==
    /\ BeginUpTo("train_step", MaxTrainCalls)
    /\ TrainStepBody

NextRepeat ==
    \/ \E num_step \in 0..MaxNumStep, batch_size \in 1..(ValidSize + 1) :
         TrainAgain(num_step, batch_size)
    \/ TrainOptimizer
    \/ TrainValidShocks
    \/ TrainSample
    \/ TrainStep
    \/ TrainCheck
    \/ TrainGetValueDataset
    \/ TrainVtrainer
    \/ TrainLog
    \/ TrainValidate
    \/ TrainStepAgain

SpecRepeat == InitRepeat /\ [][NextRepeat]_vars

\* C12 as claimed: once the optimizer exists it stays, every gradient step (an
\* update of the weights) advances its step counter by exactly one, nothing else
\* changes the counter, and the counter never goes back, whatever train and
\* train_step calls follow one another.
C12_OptimizerOnlyAdvances ==
    [][optimizer # NoOpt =>
         /\ optimizer' # NoOpt
         /\ optimizer'.iterations >= optimizer.iterations
         /\ optimizer'.iterations =
              optimizer.iterations + (IF weights' # weights THEN 1 ELSE 0)]_vars

(***************************************************************************)
(* prepare_state(input_data).                                              *)
(*                                                                         *)
(* A tensor is the sequence of its feature columns (its last axis); a      *)
(* column is a pair <<name, index>>.  basic_s is the agent's capital, the  *)
(* mean capital and the other basic features; agt_s is the agent's capital.*)
(***************************************************************************)
MaxNfm == 3      \* config["n_fm"] in 0..MaxNfm
MaxNgm == 1      \* config["n_gm"] in 0..MaxNgm
MaxExtra == 2    \* basic_s has 1..MaxExtra columns after k and k_mean

\* input_data of prepare_state when basic_s has d columns after k and k_mean.
InputData(d) ==
    [basic_s |-> <<<<"k", 0>>, <<"k_mean", 0>>>> \o [j \in 1..d |-> <<"s", j>>],
     agt_s |-> <<<<"k", 0>>>>]

\* x[..., a:] for a sequence of columns (a counted from 0).
From(x, a) == SubSeq(x, a + 1, Len(x))

\* x[..., 0:1]
First(x) == SubSeq(x, 1, 1)

\* Lines 60-68: basic_s and agt_s, log-transformed when use_log_k.
Transformed(cfg, input_data) ==
    IF cfg.use_log_k
    THEN [basic_s |-> <<<<"log_k", 0>>, <<"log_k_mean", 0>>>>
                          \o From(input_data.basic_s, 2),
          agt_s |-> <<<<"log_k", 0>>>>]
    ELSE [basic_s |-> input_data.basic_s, agt_s |-> input_data.agt_s]

\* Lines 69-82: the branch that builds `state`, "none" when no branch is taken.
Branch(cfg) ==
    CASE cfg.full_state -> "full_state"
      [] ~cfg.full_state /\ cfg.n_fm = 2 -> "n_fm_2"
      [] ~cfg.full_state /\ cfg.n_fm = 0 -> "n_fm_0"
      [] ~cfg.full_state /\ cfg.n_fm = 1 -> "n_fm_1"
      [] OTHER -> "none"

\* prepare_state: whether it raises (state is read unbound at line 83 or 86) and
\* the state it returns.
prepare_state(cfg, input_data) ==
    LET x == Transformed(cfg, input_data)
        b == Branch(cfg)
        state ==
            CASE b = "full_state" ->
                    First(x.basic_s) \o From(x.basic_s, 2)
                        \o [j \in 1..cfg.n_agt |-> <<"k_of_agent", j>>]
              [] b = "n_fm_2" -> x.basic_s \o <<<<"k_var", 0>>>>
              [] b = "n_fm_0" -> First(x.basic_s) \o From(x.basic_s, 2)
              [] b = "n_fm_1" -> x.basic_s
              [] OTHER -> <<>>
        gm == [j \in 1..cfg.n_gm |-> <<"gm", j>>]
    IN IF b = "none"
       THEN [raised |-> TRUE, state |-> <<>>]
       ELSE [raised |-> FALSE, state |-> IF cfg.n_gm > 0 THEN state \o gm ELSE state]

Names(state) == {state[j][1] : j \in DOMAIN state}

\* The feature modes a returned state shows: the log-capital transform (a log
\* column), the full-state passthrough (the capital of every agent), the
\* cross-sectional variance; plain when it shows none of them.
ModesOf(state) ==
    LET special ==
            (IF "log_k" \in Names(state) THEN {"log_capital"} ELSE {})
            \cup (IF "k_of_agent" \in Names(state) THEN {"full_state"} ELSE {})
            \cup (IF "k_var" \in Names(state) THEN {"variance"} ELSE {})
    IN IF special = {} THEN {"plain"} ELSE special

PrepConfigs ==
    [use_log_k : BOOLEAN, full_state : BOOLEAN, n_fm : 0..MaxNfm,
     n_gm : 0..MaxNgm, n_agt : 1..MaxAgt]

InitPrep ==
    /\ cls \in Concrete
    /\ config \in PrepConfigs
    /\ policy_ds = get_policydataset("init_policy", FALSE)
    /\ weights = 0
    /\ optimizer = NoOpt
    /\ pc = "idle"
    /\ tr = TrNone
    /\ ev = EvZero
    /\ smp = SmpNone
    /\ last = [op |-> "none", result |-> "none"]
    /\ snap = [weights |-> 0, policy_ds |-> policy_ds]
    /\ calls = 0
    /\ ls = LsIdle
    /\ sv = SvIdle
    /\ gt = GtIdle
    /\ ps = PsIdle

\* prepare_state is called on input_data with d further basic features.
PrepareState(d) ==
    /\ LET r == prepare_state(config, InputData(d)) IN
       ps' = [on |-> TRUE, input_data |-> InputData(d), raised |-> r.raised,
              state |-> r.state]
    /\ UNCHANGED <<cls, config, policy_ds, weights, optimizer, pc, tr, ev, smp,
                   last, snap, calls, ls, sv, gt>>

NextPrep == \E d \in 1..MaxExtra : PrepareState(d)

SpecPrep == InitPrep /\ [][NextPrep]_vars

\* C13 as claimed: for every configuration of use_log_k, full_state, n_fm and n_gm,
\* prepare_state returns a state, and the state shows exactly one of the four
\* feature modes.
C13_ExactlyOneMode ==
    ps.on => /\ ~ps.raised
             /\ Cardinality(ModesOf(ps.state)) = 1

====
